---- MODULE Spec2Model ----
(***************************************************************************)
(* Model of the ant simulation of src/ants.py: the Ant state machine       *)
(* (Ant.tick), the helpers get_adjacent_food / get_adjacent_paths, and the *)
(* part of main() that owns the food list, the ant list and the list of    *)
(* known paths (food toggle, reset, one tick = every ant stepped in list   *)
(* order).  Lists are sequences; Python's list semantics (value equality,  *)
(* first-occurrence index/remove, negative indices, IndexError/ValueError) *)
(* are modelled as the interpreter performs them.                          *)
(***************************************************************************)
EXTENDS Integers, Sequences, FiniteSets, TLC

(* ----------------------------- bounds ---------------------------------- *)
\* The source uses a 50x50 grid and 500 ants; the model checks a small grid.
GRID_WIDTH == 3
GRID_HEIGHT == 2
ANT_COUNT == 2
\* Caps on the lists that the program lets grow without limit.
MaxPathLen == 3
MaxPaths == 2
MaxFood == 1

(* ------------------------- program constants --------------------------- *)
FOOD_HUNT == 0
FOLLOW_PATH_FOOD == 1
FOLLOW_PATH_HOME == 2

ANT_HOME_COORD == <<GRID_WIDTH \div 2, GRID_HEIGHT \div 2>>

VARIABLES
    cfg,            \* grid width/height and home coordinate (fixed by Init)
    food_coords,    \* main(): list of food coordinates
    living_ants,    \* main(): list of Ant records
    paths_to_food,  \* main(): list of known paths (each a list of coords)
    turn,           \* position of the `for ant in living_ants` loop (1 = between ticks)
    crashed,        \* "none", or the exception that ended the program
    inval,          \* observer: the invalidation currently being followed
    tick_paths,     \* observer: paths_to_food when the tick under way began
                    \* (between ticks: at the end of the latest tick)
    followed        \* observer: per ant, the position in paths_to_food of the
                    \* entry it published or copied (0: none)

vars == <<cfg, food_coords, living_ants, paths_to_food, turn, crashed, inval,
          tick_paths, followed>>

(* ------------------------- Python list helpers ------------------------- *)
InList(e, list) == \E i \in 1..Len(list) : list[i] = e

\* list.index(e): 0-based position of the first occurrence
ListIndex(list, e) ==
    (CHOOSE i \in 1..Len(list) :
        list[i] = e /\ \A j \in 1..(i - 1) : list[j] # e) - 1

\* list.remove(e): drop the first element equal to e
ListRemove(list, e) ==
    LET k == ListIndex(list, e) + 1 IN
    [i \in 1..(Len(list) - 1) |-> IF i < k THEN list[i] ELSE list[i + 1]]

\* list[k] succeeds for -len <= k < len, negative k counting from the end
PyValidIndex(list, k) == (0 - Len(list)) <= k /\ k < Len(list)

PyGet(list, k) == IF k >= 0 THEN list[k + 1] ELSE list[Len(list) + k + 1]

(* ------------------------------ the grid ------------------------------- *)
\* InBounds with the upper test on x off by one (<= for <)
InBounds_WideX(pos) ==
    /\ 0 <= pos[1] /\ pos[1] <= cfg.width
    /\ 0 <= pos[2] /\ pos[2] < cfg.height

InBounds(pos) ==
    /\ 0 <= pos[1] /\ pos[1] < cfg.width
    /\ 0 <= pos[2] /\ pos[2] < cfg.height

Offsets == {<<dx, dy>> \in (-1..1) \X (-1..1) : dy # 0 \/ dx # 0}

directions ==
    {<<1, 0>>, <<0, 1>>, <<-1, 0>>, <<0, -1>>,
     <<1, 1>>, <<-1, -1>>, <<-1, 1>>, <<1, -1>>}

Plus(pos, v) == <<pos[1] + v[1], pos[2] + v[2]>>

\* get_adjacent_food looking two cells away (range(-2, 3) for range(-1, 2))
get_adjacent_food_Far(food, pos) ==
    {new_pos \in {Plus(pos, o) : o \in ((-2..2) \X (-2..2)) \ {<<0, 0>>}} :
        InBounds(new_pos) /\ InList(new_pos, food)}

\* get_adjacent_food without the test `new_pos in food`
get_adjacent_food_Any(food, pos) ==
    {new_pos \in {Plus(pos, o) : o \in Offsets} : InBounds(new_pos)}

\* the in-bounds cells around pos that hold food
get_adjacent_food(food, pos) ==
    {new_pos \in {Plus(pos, o) : o \in Offsets} :
        InBounds(new_pos) /\ InList(new_pos, food)}

\* get_adjacent_paths reading the list of paths as it was when the tick began
get_adjacent_paths_Stale(pos, paths) ==
    {<<tick_paths[k], ListIndex(tick_paths[k], new_pos)>> :
        <<k, new_pos>> \in
            {kp \in (1..Len(tick_paths)) \X {Plus(pos, o) : o \in Offsets} :
                InBounds(kp[2]) /\ InList(kp[2], tick_paths[kp[1]])}}

\* get_adjacent_paths without the exclusion of the ant's own cell
get_adjacent_paths_Self(pos, paths) ==
    {<<paths[k], ListIndex(paths[k], new_pos)>> :
        <<k, new_pos>> \in
            {kp \in (1..Len(paths))
                      \X {Plus(pos, o) : o \in (-1..1) \X (-1..1)} :
                InBounds(kp[2]) /\ InList(kp[2], paths[kp[1]])}}

\* the (path, index) pairs of known paths passing through a cell around pos
get_adjacent_paths(pos, paths) ==
    {<<paths[k], ListIndex(paths[k], new_pos)>> :
        <<k, new_pos>> \in
            {kp \in (1..Len(paths)) \X {Plus(pos, o) : o \in Offsets} :
                InBounds(kp[2]) /\ InList(kp[2], paths[kp[1]])}}

(* ------------------------------- the ant ------------------------------- *)
Ant(home) ==
    [coord |-> home, state |-> FOOD_HUNT,
     current_path |-> <<>>, current_path_index |-> -1]

\* Adopt without the move onto the path (self.coord is left as it was)
Adopt_NoMove(new_path) ==
    [coord |-> living_ants[turn].coord,
     state |-> FOLLOW_PATH_FOOD,
     current_path |-> new_path[1],
     current_path_index |-> new_path[2]]

\* FOOD_HUNT, a known path is next to the ant: take a copy of it and stand
\* on its cell new_path[2]
Adopt(new_path) ==
    [coord |-> PyGet(new_path[1], new_path[2]),
     state |-> FOLLOW_PATH_FOOD,
     current_path |-> new_path[1],
     current_path_index |-> new_path[2]]

\* Move without the cut: the new position is always appended
Move_NoCut(self, new_pos) ==
    [coord |-> new_pos,
     state |-> self.state,
     current_path |-> Append(self.current_path, new_pos),
     current_path_index |-> self.current_path_index + 1]

\* Move that cuts the path but advances the index as if it had appended
Move_StaleIndex(self, new_pos) ==
    IF InList(new_pos, self.current_path) THEN
       [coord |-> new_pos,
        state |-> self.state,
        current_path |->
            SubSeq(self.current_path, 1,
                   ListIndex(self.current_path, new_pos) + 1),
        current_path_index |-> self.current_path_index + 1]
    ELSE
       [coord |-> new_pos,
        state |-> self.state,
        current_path |-> Append(self.current_path, new_pos),
        current_path_index |-> self.current_path_index + 1]

\* FOOD_HUNT, the random move to new_pos: cut the path back to new_pos when it
\* is already on it, else append new_pos and advance the index
Move(self, new_pos) ==
    IF InList(new_pos, self.current_path) THEN
       LET index == ListIndex(self.current_path, new_pos) IN
       [coord |-> new_pos,
        state |-> self.state,
        current_path |-> SubSeq(self.current_path, 1, index + 1),
        current_path_index |-> index]
    ELSE
       [coord |-> new_pos,
        state |-> self.state,
        current_path |-> Append(self.current_path, new_pos),
        current_path_index |-> self.current_path_index + 1]

\* the ants (by position in the list) whose path equals old_path
SamePath(ants, old_path) ==
    {i \in 1..Len(ants) : ants[i].current_path = old_path}

\* StopFollowing without the loop over the ants: only the stepping ant
StopFollowing_SelfOnly(ants, old_path) ==
    [ants EXCEPT ![turn].state = FOOD_HUNT]

\* StopFollowing that leaves the ants on their way home alone
StopFollowing_FoodOnly(ants, old_path) ==
    [i \in 1..Len(ants) |->
        IF i \in SamePath(ants, old_path) /\ ants[i].state = FOLLOW_PATH_FOOD
        THEN [ants[i] EXCEPT !.state = FOOD_HUNT]
        ELSE ants[i]]

\* every ant whose path equals old_path goes back to FOOD_HUNT
StopFollowing(ants, old_path) ==
    [i \in 1..Len(ants) |->
        IF i \in SamePath(ants, old_path)
        THEN [ants[i] EXCEPT !.state = FOOD_HUNT]
        ELSE ants[i]]

MainCfg == [width |-> GRID_WIDTH, height |-> GRID_HEIGHT, home |-> ANT_HOME_COORD]

\* the 1-agent scenario of the specification: 5x5 grid, home (2,2), food (2,0)
ScenarioCfg == [width |-> 5, height |-> 5, home |-> <<2, 2>>]

NoInval == [who |-> {}, age |-> 0, ok |-> FALSE]

Following(ant) == ant.state = FOLLOW_PATH_FOOD \/ ant.state = FOLLOW_PATH_HOME

\* FOLLOW_PATH_FOOD at the final index with no food around: the step that
\* forgets the path
Invalidates(ant) ==
    /\ ant.state = FOLLOW_PATH_FOOD
    /\ ant.current_path_index = Len(ant.current_path) - 1
    /\ get_adjacent_food(food_coords, ant.coord) = {}

\* Follow an invalidation of a path of length >= 2 that two or more ants were
\* following, over the end of its tick and of the next one; ok records whether
\* all of them were in FOOD_HUNT at one of those two tick ends.
NextInval(ants) ==
    LET self == living_ants[turn]
        followers == {i \in 1..Len(living_ants) :
                          /\ living_ants[i].current_path = self.current_path
                          /\ Following(living_ants[i])}
        base == IF inval.age >= 2 THEN NoInval ELSE inval
        started ==
            IF /\ base.who = {}
               /\ Invalidates(self)
               /\ Len(self.current_path) >= 2
               /\ Cardinality(followers) >= 2
            THEN [who |-> followers, age |-> 0, ok |-> FALSE]
            ELSE base
    IN  IF turn = Len(living_ants) /\ started.who # {}
        THEN [who |-> started.who,
              age |-> started.age + 1,
              ok |-> started.ok
                       \/ \A i \in started.who : ants[i].state = FOOD_HUNT]
        ELSE started

\* Which entry of paths_to_food each ant follows, after a step of the ant
\* `turn`: a publisher follows the entry it appended; an adopter follows one
\* of the entries equal to the path it copied (random.choice picks among the
\* pairs of all of them); when an entry is removed the entries behind it move
\* up by one; an ant in FOOD_HUNT follows none.
ObserveFollowed ==
    LET self == living_ants[turn]
        after == living_ants'[turn]
        removed == IF Len(paths_to_food') < Len(paths_to_food)
                   THEN ListIndex(paths_to_food, self.current_path) + 1
                   ELSE 0
        Shift(j) == IF ~Following(living_ants'[j]) THEN 0
                    ELSE IF removed > 0 /\ followed[j] > removed
                         THEN followed[j] - 1
                         ELSE followed[j]
    IN  IF self.state = FOOD_HUNT /\ after.state = FOLLOW_PATH_HOME THEN
           followed' = [followed EXCEPT ![turn] = Len(paths_to_food')]
        ELSE IF self.state = FOOD_HUNT /\ after.state = FOLLOW_PATH_FOOD THEN
           \E k \in {e \in 1..Len(paths_to_food) :
                         paths_to_food[e] = after.current_path} :
              followed' = [followed EXCEPT ![turn] = k]
        ELSE
           followed' = [j \in 1..Len(living_ants) |-> Shift(j)]

(* ------------------------------ Ant.tick ------------------------------- *)
\* One step of the ant whose turn it is, then the loop moves to the next ant.
AntTick ==
    /\ crashed = "none"
    /\ LET self == living_ants[turn] IN
       IF self.state = FOOD_HUNT THEN
          IF Cardinality(get_adjacent_food(food_coords, self.coord)) >= 1 THEN
             \* food found: publish a copy of the path, then return home
             /\ Len(paths_to_food) < MaxPaths
             /\ paths_to_food' = Append(paths_to_food, self.current_path)
             /\ living_ants' =
                    [living_ants EXCEPT ![turn].state = FOLLOW_PATH_HOME]
             /\ crashed' = crashed
          ELSE
             LET adjacent_paths ==
                     get_adjacent_paths(self.coord, paths_to_food) IN
             IF Cardinality(adjacent_paths) >= 1 THEN
                \E new_path \in adjacent_paths :
                   /\ living_ants' =
                          [living_ants EXCEPT ![turn] = Adopt(new_path)]
                   /\ UNCHANGED <<paths_to_food, crashed>>
             ELSE
                LET valid == {v \in directions : InBounds(Plus(self.coord, v))} IN
                IF valid = {} THEN
                   UNCHANGED <<living_ants, paths_to_food, crashed>>
                ELSE
                   \E vector \in valid :
                      LET new_pos == Plus(self.coord, vector) IN
                      \* the model stops a walk that would outgrow MaxPathLen
                      /\ (~InList(new_pos, self.current_path))
                            => Len(self.current_path) < MaxPathLen
                      /\ living_ants' =
                             [living_ants EXCEPT ![turn] = Move(self, new_pos)]
                      /\ UNCHANGED <<paths_to_food, crashed>>
       ELSE IF self.state = FOLLOW_PATH_FOOD THEN
          IF self.current_path_index = Len(self.current_path) - 1 THEN
             IF Cardinality(get_adjacent_food(food_coords, self.coord)) >= 1 THEN
                /\ living_ants' =
                       [living_ants EXCEPT ![turn].state = FOLLOW_PATH_HOME]
                /\ UNCHANGED <<paths_to_food, crashed>>
             ELSE IF InList(self.current_path, paths_to_food) THEN
                \* food is gone: forget the path, stop the ants following it
                /\ paths_to_food' = ListRemove(paths_to_food, self.current_path)
                /\ living_ants' = StopFollowing(living_ants, self.current_path)
                /\ crashed' = crashed
             ELSE
                \* list.remove(x): x not in list
                /\ crashed' = "ValueError"
                /\ UNCHANGED <<living_ants, paths_to_food>>
          ELSE
             LET index == self.current_path_index + 1 IN
             IF PyValidIndex(self.current_path, index) THEN
                /\ living_ants' = [living_ants EXCEPT ![turn] =
                       [self EXCEPT !.current_path_index = index,
                                    !.coord = PyGet(self.current_path, index)]]
                /\ UNCHANGED <<paths_to_food, crashed>>
             ELSE
                /\ living_ants' =
                       [living_ants EXCEPT ![turn].current_path_index = index]
                /\ crashed' = "IndexError"
                /\ UNCHANGED paths_to_food
       ELSE
          \* FOLLOW_PATH_HOME
          IF self.current_path_index = 0 THEN
             /\ living_ants' =
                    [living_ants EXCEPT ![turn].state = FOLLOW_PATH_FOOD]
             /\ UNCHANGED <<paths_to_food, crashed>>
          ELSE
             LET index == self.current_path_index - 1 IN
             IF PyValidIndex(self.current_path, index) THEN
                /\ living_ants' = [living_ants EXCEPT ![turn] =
                       [self EXCEPT !.current_path_index = index,
                                    !.coord = PyGet(self.current_path, index)]]
                /\ UNCHANGED <<paths_to_food, crashed>>
             ELSE
                /\ living_ants' =
                       [living_ants EXCEPT ![turn].current_path_index = index]
                /\ crashed' = "IndexError"
                /\ UNCHANGED paths_to_food
    /\ turn' = (turn % Len(living_ants)) + 1
    /\ inval' = NextInval(living_ants')
    /\ tick_paths' = IF turn' = 1 THEN paths_to_food'
                     ELSE IF turn = 1 THEN paths_to_food ELSE tick_paths
    /\ ObserveFollowed
    /\ UNCHANGED <<cfg, food_coords>>

(* -------------------------------- main --------------------------------- *)
\* the cells a click can hit: mouse position // tile size
Cells == (0..(cfg.width - 1)) \X (0..(cfg.height - 1))

\* the click handler's list update: remove the cell's food, else add it
Toggle(food, grid_pos) ==
    IF InList(grid_pos, food)
    THEN ListRemove(food, grid_pos)
    ELSE Append(food, grid_pos)

\* A left click between two ticks: toggle the food of the clicked cell.
ToggleFood ==
    /\ crashed = "none"
    /\ turn = 1
    /\ \E grid_pos \in Cells :
          /\ (~InList(grid_pos, food_coords)) => Len(food_coords) < MaxFood
          /\ food_coords' = Toggle(food_coords, grid_pos)
    /\ UNCHANGED <<cfg, living_ants, paths_to_food, turn, crashed, inval,
                   tick_paths, followed>>

\* The food-movement variant (FOOD_MOVE_DELAY set to a number): between two
\* ticks one food entry is overwritten with a random cell of the grid.
FoodMove ==
    /\ crashed = "none"
    /\ turn = 1
    /\ Len(food_coords) >= 1
    /\ \E k \in 1..Len(food_coords), cell \in Cells :
          food_coords' = [food_coords EXCEPT ![k] = cell]
    /\ UNCHANGED <<cfg, living_ants, paths_to_food, turn, crashed, inval,
                   tick_paths, followed>>

\* Reset that forgets to empty the list of known paths
Reset_KeepPaths ==
    /\ crashed = "none"
    /\ turn = 1
    /\ food_coords' = <<>>
    /\ living_ants' = [i \in 1..Len(living_ants) |-> Ant(cfg.home)]
    /\ inval' = NoInval
    /\ followed' = [i \in 1..Len(living_ants) |-> 0]
    /\ UNCHANGED <<cfg, turn, crashed, tick_paths, paths_to_food>>

\* The R key between two ticks: new ants, no food, no paths.
Reset ==
    /\ crashed = "none"
    /\ turn = 1
    /\ food_coords' = <<>>
    /\ living_ants' = [i \in 1..Len(living_ants) |-> Ant(cfg.home)]
    /\ paths_to_food' = <<>>
    /\ inval' = NoInval
    /\ followed' = [i \in 1..Len(living_ants) |-> 0]
    /\ UNCHANGED <<cfg, turn, crashed, tick_paths>>

Init ==
    /\ cfg = MainCfg
    /\ food_coords = <<>>
    /\ living_ants = [i \in 1..ANT_COUNT |-> Ant(cfg.home)]
    /\ paths_to_food = <<>>
    /\ turn = 1
    /\ crashed = "none"
    /\ inval = NoInval
    /\ tick_paths = <<>>
    /\ followed = [i \in 1..Len(living_ants) |-> 0]

Next == AntTick \/ ToggleFood \/ Reset

Spec == Init /\ [][Next]_vars

\* The scenario: one ant, 5x5 grid, home (2,2), food fixed at (2,0).
InitScenario ==
    /\ cfg = ScenarioCfg
    /\ food_coords = << <<2, 0>> >>
    /\ living_ants = << Ant(cfg.home) >>
    /\ paths_to_food = <<>>
    /\ turn = 1
    /\ crashed = "none"
    /\ inval = NoInval
    /\ tick_paths = <<>>
    /\ followed = [i \in 1..Len(living_ants) |-> 0]

NextScenario == AntTick

SpecScenario == InitScenario /\ [][NextScenario]_vars

\* The food-movement variant with one ant; two clicks have put food on two
\* cells.
InitFoodMove ==
    /\ cfg = MainCfg
    /\ food_coords \in {<<a, b>> : <<a, b>> \in
                           {ab \in Cells \X Cells : ab[1] # ab[2]}}
    /\ living_ants = << Ant(cfg.home) >>
    /\ paths_to_food = <<>>
    /\ turn = 1
    /\ crashed = "none"
    /\ inval = NoInval
    /\ tick_paths = <<>>
    /\ followed = [i \in 1..Len(living_ants) |-> 0]

NextFoodMove == AntTick \/ ToggleFood \/ FoodMove \/ Reset

SpecFoodMove == InitFoodMove /\ [][NextFoodMove]_vars

TypeOK ==
    /\ crashed \in {"none", "IndexError", "ValueError"}
    /\ turn \in 1..Len(living_ants)

(* ------------------------------ properties ----------------------------- *)
AntIds == 1..Len(living_ants)

\* every path of the program: the ants' paths and the known paths
AllPaths ==
    {living_ants[i].current_path : i \in AntIds}
        \cup {paths_to_food[k] : k \in 1..Len(paths_to_food)}

\* two cells one king's move apart
Adjacent(a, b) == Plus(a, <<0 - b[1], 0 - b[2]>>) \in directions

\* the ant stands where its index points
OnPath(ant) ==
    /\ ant.current_path_index < Len(ant.current_path)
    /\ ant.coord = ant.current_path[ant.current_path_index + 1]

\* C1: every agent whose path cursor is >= 0 stands on
\* current_path[path_cursor], in all three states, also after a forced return
\* to FOOD_HUNT in the middle of its path followed by random-walk steps.
C1_PositionMatchesCursor ==
    \A i \in AntIds :
        living_ants[i].current_path_index >= 0 => OnPath(living_ants[i])

\* C2: stepping an agent never fails and never leaves a cursor out of range
\* for its path (an empty path has cursor -1); the machine never stops.
C2_StepTotality ==
    /\ crashed = "none"
    /\ \A i \in AntIds :
          LET ant == living_ants[i] IN
          IF ant.current_path = <<>>
          THEN ant.current_path_index = -1
          ELSE 0 <= ant.current_path_index
                 /\ ant.current_path_index <= Len(ant.current_path) - 1

\* every follower's path has an equal entry among the known paths
FollowersKnown(ants, paths) ==
    \A i \in 1..Len(ants) :
        Following(ants[i]) => InList(ants[i].current_path, paths)

Count(list, e) == Cardinality({k \in 1..Len(list) : list[k] = e})

C4_PathsStartAtHome ==
    /\ \A path \in AllPaths : path # <<>> => path[1] = cfg.home
    /\ \A i \in AntIds :
          (living_ants[i].state = FOLLOW_PATH_HOME
              /\ living_ants[i].current_path_index = 0)
            => living_ants[i].coord = cfg.home

\* C5: every agent path and every known path is 8-connected.
C5_EightConnected ==
    \A path \in AllPaths :
        \A k \in 1..(Len(path) - 1) : Adjacent(path[k], path[k + 1])

\* C6: no coordinate occurs twice in an agent's path or in a known path.
C6_LoopFree ==
    \A path \in AllPaths :
        \A j, k \in 1..Len(path) : path[j] = path[k] => j = k

\* an ant sent back to FOOD_HUNT in mid-path has walked on from there, and
\* an ant has cut its path back to a cell it came through
C6_Witness ==
    \E i \in AntIds :
        /\ living_ants[i].state = FOOD_HUNT
        /\ Len(living_ants[i].current_path) = 3
        /\ living_ants[i].current_path_index = 1
        /\ ~OnPath(living_ants[i])

\* C7: every agent's coordinate is inside the grid.
C7_InBounds ==
    \A i \in AntIds :
        /\ 0 <= living_ants[i].coord[1]
        /\ living_ants[i].coord[1] < cfg.width
        /\ 0 <= living_ants[i].coord[2]
        /\ living_ants[i].coord[2] < cfg.height

\* one ant stands in the far corner after adopting a path, another walks
C7_Witness ==
    \E i, j \in AntIds :
        /\ living_ants[i].coord = <<cfg.width - 1, cfg.height - 1>>
        /\ living_ants[i].state = FOLLOW_PATH_FOOD
        /\ living_ants[j].state = FOOD_HUNT
        /\ living_ants[j].coord[1] = 0

\* C8: an agent with a non-empty path has 0 <= path_cursor <= len - 1.
C8_CursorRange ==
    \A i \in AntIds :
        living_ants[i].current_path # <<>>
            => /\ 0 <= living_ants[i].current_path_index
               /\ living_ants[i].current_path_index
                      <= Len(living_ants[i].current_path) - 1

\* an ant is in FOOD_HUNT below the end of its path: it was sent back to
\* FOOD_HUNT while following
C8_Witness ==
    \E i \in AntIds :
        /\ living_ants[i].state = FOOD_HUNT
        /\ living_ants[i].current_path_index >= 0
        /\ living_ants[i].current_path_index
               < Len(living_ants[i].current_path) - 1

\* C9 (scenario): once the agent has left FOOD_HUNT, and ever after, there is
\* exactly one known path and its last coordinate is next to the food (2,0);
\* before that there is none.
C9_OnePathPublished ==
    IF living_ants[1].state = FOOD_HUNT
    THEN paths_to_food = <<>>
    ELSE /\ Len(paths_to_food) = 1
         /\ paths_to_food[1] # <<>>
         /\ Adjacent(paths_to_food[1][Len(paths_to_food[1])], <<2, 0>>)

\* the ant is back at the end of a path of two or more cells it published
C9_Witness ==
    /\ living_ants[1].state = FOLLOW_PATH_FOOD
    /\ Len(living_ants[1].current_path) >= 2
    /\ living_ants[1].current_path_index = Len(living_ants[1].current_path) - 1
    /\ paths_to_food = <<living_ants[1].current_path>>

\* C10 (scenario, the agent explores since creation while in FOOD_HUNT): the
\* path ends at the agent's coordinate, holds no coordinate twice, the cursor
\* is its last index, and every cycle of the walk is collapsed, also a cycle
\* through the starting coordinate: back at the start, nothing of the cycle
\* is left in the path.
C10_CyclesCollapsed ==
    living_ants[1].state = FOOD_HUNT =>
        LET ant == living_ants[1] IN
        /\ ant.current_path # <<>> =>
              /\ ant.current_path[Len(ant.current_path)] = ant.coord
              /\ ant.current_path_index = Len(ant.current_path) - 1
        /\ \A j, k \in 1..Len(ant.current_path) :
              ant.current_path[j] = ant.current_path[k] => j = k
        /\ ant.coord = cfg.home => Len(ant.current_path) <= 1

\* a step of the tick loop: the ant `turn` is stepped (more than one ant)
AntStepped == turn' # turn

\* some food lies next to pos / some known path passes next to pos
FoodNextTo(pos) ==
    \E k \in 1..Len(food_coords) : Adjacent(pos, food_coords[k])

PathNextTo(pos, paths) ==
    \E k \in 1..Len(paths) : \E m \in 1..Len(paths[k]) :
        Adjacent(pos, paths[k][m])

\* C11: toggling the food of a cell twice in a row leaves every cell's food
\* membership as it was, in every reachable food list, also in the variant
\* that relocates food entries.
C11_ToggleTwiceRestores ==
    \A grid_pos \in Cells : \A cell \in Cells :
        InList(cell, Toggle(Toggle(food_coords, grid_pos), grid_pos))
            <=> InList(cell, food_coords)

\* C12: a tick steps the agents one after the other in list order, food is
\* toggled only between ticks, a step moves no other agent, and a FOOD_HUNT
\* agent sees the known paths as the agents stepped before it in the same
\* tick left them: it adopts only a path that is in the list at its step, it
\* does adopt when a path of that list passes next to it (and no food does),
\* and it keeps hunting when none does.
C12_TickOrder ==
    [][ /\ AntStepped =>
              /\ turn' = (turn % Len(living_ants)) + 1
              /\ food_coords' = food_coords
              /\ \A j \in AntIds \ {turn} :
                    /\ living_ants'[j].coord = living_ants[j].coord
                    /\ living_ants'[j].current_path = living_ants[j].current_path
                    /\ living_ants'[j].current_path_index
                           = living_ants[j].current_path_index
        /\ food_coords' # food_coords => (turn = 1 /\ turn' = 1)
        /\ ( /\ AntStepped
             /\ living_ants[turn].state = FOOD_HUNT
             /\ ~FoodNextTo(living_ants[turn].coord) )
           => IF PathNextTo(living_ants[turn].coord, paths_to_food)
              THEN /\ living_ants'[turn].state = FOLLOW_PATH_FOOD
                   /\ InList(living_ants'[turn].current_path, paths_to_food)
              ELSE living_ants'[turn].state = FOOD_HUNT
      ]_vars

\* the first ant has published a path in the tick under way and the second,
\* still to be stepped, hunts next to that path and to no path known before
C12_Witness ==
    /\ turn = 2
    /\ Len(paths_to_food) = Len(tick_paths) + 1
    /\ living_ants[2].state = FOOD_HUNT
    /\ ~FoodNextTo(living_ants[2].coord)
    /\ PathNextTo(living_ants[2].coord, paths_to_food)
    /\ ~PathNextTo(living_ants[2].coord, tick_paths)

\* C13: a reset keeps the number of agents and leaves every agent at home in
\* FOOD_HUNT with an empty path and cursor -1, no known path and no food:
\* the program's lists are those of a fresh start.
C13_ResetFresh ==
    [][ ( /\ turn' = turn
          /\ living_ants' # living_ants \/ paths_to_food' # paths_to_food )
        => ( /\ Len(living_ants') = Len(living_ants)
             /\ \A i \in AntIds :
                   living_ants'[i] =
                       [coord |-> cfg.home, state |-> FOOD_HUNT,
                        current_path |-> <<>>, current_path_index |-> -1]
             /\ paths_to_food' = <<>>
             /\ food_coords' = <<>>
             /\ turn' = 1
             /\ crashed' = "none"
             /\ cfg' = cfg )
      ]_vars

\* a reset has thrown away the paths known at the end of the latest tick
C13_Witness ==
    /\ tick_paths # <<>>
    /\ paths_to_food = <<>>
    /\ food_coords = <<>>
    /\ \A i \in AntIds :
          /\ living_ants[i].coord = cfg.home
          /\ living_ants[i].state = FOOD_HUNT
          /\ living_ants[i].current_path = <<>>
          /\ living_ants[i].current_path_index = -1

\* C14: the entry removed by an invalidation is the very entry the stepping
\* agent published or copied, only agents following that entry are sent back
\* to FOOD_HUNT, and agents following another entry (also one with the same
\* coordinates) keep their state.
C14_RemovalByIdentity ==
    [][ ( /\ AntStepped
          /\ crashed' = "none"
          /\ Invalidates(living_ants[turn]) )
        => ( /\ ListIndex(paths_to_food, living_ants[turn].current_path) + 1
                   = followed[turn]
             /\ \A j \in AntIds :
                   followed[j] # followed[turn]
                       => living_ants'[j].state = living_ants[j].state )
      ]_vars

\* C15: a publishing step appends exactly one entry, equal to the agent's
\* path, whose last coordinate is the agent's coordinate, which holds no
\* food; the agent keeps its coordinate and goes to FOLLOW_PATH_HOME.
C15_PublishedPathEndsAtAgent ==
    [][ ( /\ AntStepped
          /\ living_ants[turn].state = FOOD_HUNT
          /\ FoodNextTo(living_ants[turn].coord) )
        => LET self == living_ants[turn] IN
           /\ paths_to_food' = Append(paths_to_food, self.current_path)
           /\ self.current_path # <<>>
           /\ self.current_path[Len(self.current_path)] = self.coord
           /\ ~InList(self.coord, food_coords)
           /\ living_ants'[turn] = [self EXCEPT !.state = FOLLOW_PATH_HOME]
      ]_vars

\* the list `after` is `before` with no entry changed: equal, or one entry
\* appended, or one entry taken out
OnlyAppendOrRemove(before, after) ==
    \/ after = before
    \/ /\ Len(after) = Len(before) + 1
       /\ SubSeq(after, 1, Len(before)) = before
    \/ \E r \in 1..Len(before) :
          after = [i \in 1..(Len(before) - 1) |->
                      IF i < r THEN before[i] ELSE before[i + 1]]

\* C16: an adopting agent ends with a path equal to an entry of the known
\* paths, its cursor on a cell of it, its coordinate that cell, in
\* FOLLOW_PATH_FOOD, and the known paths untouched; and no step of an agent
\* changes an entry of the known paths: entries are only appended or removed.
C16_AdoptionCopies ==
    [][ AntStepped =>
          /\ OnlyAppendOrRemove(paths_to_food, paths_to_food')
          /\ ( /\ living_ants[turn].state = FOOD_HUNT
               /\ living_ants'[turn].state = FOLLOW_PATH_FOOD )
             => LET after == living_ants'[turn] IN
                /\ paths_to_food' = paths_to_food
                /\ InList(after.current_path, paths_to_food)
                /\ after.current_path_index \in 0..(Len(after.current_path) - 1)
                /\ after.coord = after.current_path[after.current_path_index + 1]
      ]_vars

\* two ants follow the same entry of the known paths, at different cursors
C16_Witness ==
    \E i, j \in AntIds :
        /\ i # j
        /\ followed[i] # 0
        /\ followed[i] = followed[j]
        /\ living_ants[i].current_path = paths_to_food[followed[i]]
        /\ living_ants[j].current_path = paths_to_food[followed[i]]
        /\ living_ants[i].current_path_index # living_ants[j].current_path_index

\* C17: a step of a FOOD_HUNT agent applies the first rule that fits:
\* (1) food next to it: publish, go to FOLLOW_PATH_HOME, nothing else changes;
\* (2) else a known path passes next to it (its own cell not counted): adopt
\* a path of the list at a cell next to it; (3) else one step to an in-bounds
\* neighbour, staying in FOOD_HUNT.
C17_HuntPrecedence ==
    [][ ( /\ AntStepped
          /\ crashed' = "none"
          /\ living_ants[turn].state = FOOD_HUNT )
        => LET self == living_ants[turn]
               after == living_ants'[turn]
           IN  IF FoodNextTo(self.coord) THEN
                  /\ after = [self EXCEPT !.state = FOLLOW_PATH_HOME]
                  /\ paths_to_food' = Append(paths_to_food, self.current_path)
               ELSE IF PathNextTo(self.coord, paths_to_food) THEN
                  /\ after.state = FOLLOW_PATH_FOOD
                  /\ InList(after.current_path, paths_to_food)
                  /\ InList(after.coord, after.current_path)
                  /\ Adjacent(self.coord, after.coord)
                  /\ paths_to_food' = paths_to_food
               ELSE
                  /\ after.state = FOOD_HUNT
                  /\ Adjacent(self.coord, after.coord)
                  /\ 0 <= after.coord[1] /\ after.coord[1] < cfg.width
                  /\ 0 <= after.coord[2] /\ after.coord[2] < cfg.height
                  /\ paths_to_food' = paths_to_food
      ]_vars

\* the first ant has published in the tick under way although a path known
\* when the tick began passes next to it
C17_Witness ==
    /\ turn = 2
    /\ paths_to_food # tick_paths
    /\ Len(paths_to_food) = Len(tick_paths) + 1
    /\ living_ants[1].state = FOLLOW_PATH_HOME
    /\ PathNextTo(living_ants[1].coord, tick_paths)

\* C18: while there is no food, no step of an agent adds a known path, and a
\* state with no known path and every agent in FOOD_HUNT is followed by such
\* a state (so with no food from the start every agent hunts for ever).
C18_NoFoodNoPaths ==
    [][ (AntStepped /\ food_coords = <<>>)
        => /\ Len(paths_to_food') <= Len(paths_to_food)
           /\ ( /\ paths_to_food = <<>>
                /\ \A i \in AntIds : living_ants[i].state = FOOD_HUNT )
              => /\ paths_to_food' = <<>>
                 /\ \A i \in AntIds : living_ants'[i].state = FOOD_HUNT
      ]_vars

\* no food, a path known from before, and an ant hunting at the end of a
\* path of three cells
C18_Witness ==
    /\ food_coords = <<>>
    /\ paths_to_food # <<>>
    /\ \E i \in AntIds :
          /\ living_ants[i].state = FOOD_HUNT
          /\ Len(living_ants[i].current_path) = 3
          /\ living_ants[i].current_path_index = 2

\* C19: in a step of an agent every agent's coordinate stays or moves to one
\* of the 8 cells around it.
C19_OneCellPerStep ==
    [][ AntStepped =>
          \A i \in AntIds :
              \/ living_ants'[i].coord = living_ants[i].coord
              \/ Adjacent(living_ants[i].coord, living_ants'[i].coord)
      ]_vars

\* C20: every agent in FOLLOW_PATH_FOOD or FOLLOW_PATH_HOME has a path equal
\* to an entry of the known paths, and the removal of an invalidation never
\* misses (list.remove never raises).
C20_FollowersBacked ==
    /\ FollowersKnown(living_ants, paths_to_food)
    /\ crashed # "ValueError"

\* after an invalidation that sent two ants back, an ant follows again while
\* the other still hunts
C20_Witness ==
    /\ Cardinality(inval.who) >= 2
    /\ \E i, j \in AntIds :
          /\ Following(living_ants[i])
          /\ living_ants[j].state = FOOD_HUNT
          /\ living_ants[j].current_path # <<>>
    /\ paths_to_food # <<>>

====
